---------------------------- MODULE Spec2Model ----------------------------
(***************************************************************************)
(* A model of the FinRobot-CoT observability and orchestration core:       *)
(*   - the Run/Stage tracer (event_logger.pipeline_run / agent_run),       *)
(*   - the rate-limit guard (call_with_rate_limit_handling),               *)
(*   - the Data stage executor (DataCoTAgentUS.run / DataCoTAgentIN.run),  *)
(*   - the orchestrator (ExpertInvestor.run inside CoTPipeline.run),       *)
(*   - the entry point (process_company_with_analysis) around it,          *)
(*   - the shadow auditor (ExpertInvestorShadow.run) called on its own,    *)
(*   - the event log (_log_event) under an emitting caller,                *)
(*   - concurrent report requests (/stream), one subprocess each.          *)
(* Each part has its own specification over the shared variables; the      *)
(* parts that a specification does not exercise stay in their idle state.  *)
(***************************************************************************)
EXTENDS Integers, Sequences, FiniteSets, TLC

VARIABLES
    \* ---- tracer (event_logger.py, section 4)
    stack,        \* the tracer scopes currently open, innermost last
    scopes,       \* per scope id: kind, state, callbacks invoked, exception, exit
    events,       \* the event log sink: the records _log_event appended, in order
    exc,          \* the exception now propagating ("none" when there is none)
    \* ---- rate-limit guard (call_with_rate_limit_handling)
    guardArgs,    \* the call's arguments: variant, max_retries, backoff_factor
    guard,        \* the call's progress: attempt, invocations, sleeps, result
    \* ---- Data stage (DataCoTAgentUS.run / DataCoTAgentIN.run)
    outputs,      \* the tool manifest: per entry the output file and its type
    idx,          \* the manifest entry the for loop is at
    dpc,          \* where run() is
    validated_files,
    failed_calls,
    hallucinations,
    generated_files_registry,
    fs,           \* the working directory: file -> size in bytes, or Absent
    invoked,      \* per manifest entry, how often its tool was invoked
    caught,       \* the exception the try block of the entry raised, if any
    agent_output, \* what run() returned, or the exception it raised
    \* ---- orchestrator (CoTPipeline.run, ExpertInvestor.run)
    region,       \* CoTPipeline.region
    opc,          \* where CoTPipeline.run / ExpertInvestor.run is
    stageNo,      \* the stage ExpertInvestor.run is at (1, 2, 3)
    results,      \* per stage, the mapping its agent returned
    all_hallucinations,
    started,      \* the stages whose run() was called, in call order
    running,      \* the stages whose run() is executing
    metrics,      \* the evaluation metrics recorded, in order
    oexc,         \* the exception propagating through the orchestrator
    run_out,      \* what CoTPipeline.run returned or raised
    \* ---- entry point (annual_report_generator.py)
    rpc,          \* where the program is: module load, then process_company_with_analysis
    analysis_year, \* the analysis_year argument
    company_info, \* what resolve_company_and_peers returned
    resolves,     \* how often resolve_company_and_peers was called
    run_result,   \* what process_company_with_analysis returned or raised
    \* ---- shadow auditor (ExpertInvestorShadow.run)
    spc,          \* where ExpertInvestorShadow.run is
    stage_arg,    \* its stage argument
    input_data,   \* its input_data argument
    audit_return, \* what it returned
    qa_metrics,   \* the evaluation metrics it recorded
    \* ---- event log (_log_event under an emitting caller)
    lpc,          \* where the emitting caller is
    payloads,     \* the events the caller still has to emit
    dropped,      \* the records the logging handler failed to write
    caller_out,   \* how the emitting caller ended
    \* ---- concurrent report requests (app.py /stream)
    procs,        \* per request: where its subprocess is, its work_dir, its files
    disk          \* the file system: path -> the request whose tool wrote it last

tracerVars == <<stack, scopes, events, exc>>
guardVars == <<guardArgs, guard>>
dataVars == <<outputs, idx, dpc, validated_files, failed_calls, hallucinations,
              generated_files_registry, fs, invoked, caught, agent_output>>
orchVars == <<region, opc, stageNo, results, all_hallucinations, started,
              running, metrics, oexc, run_out>>
runVars == <<rpc, analysis_year, company_info, resolves, run_result>>
shadowVars == <<spc, stage_arg, input_data, audit_return, qa_metrics>>
logVars == <<lpc, payloads, dropped, caller_out>>
concVars == <<procs, disk>>
vars == <<stack, scopes, events, exc, guardArgs, guard, dataVars, orchVars,
          runVars, shadowVars, logVars, concVars>>

notTracer == <<guardArgs, guard, dataVars, orchVars, runVars, shadowVars,
               logVars, concVars>>
notGuard == <<stack, scopes, events, exc, dataVars, orchVars, runVars,
              shadowVars, logVars, concVars>>
\* what the Data stage leaves alone: the tracer's scopes (it logs its events
\* itself, through the log_* functions) and the orchestrator
notData == <<stack, scopes, exc, orchVars, runVars, shadowVars, logVars,
             concVars>>
\* what the orchestrator leaves alone
notOrch == <<stack, scopes, exc, guardArgs, guard, dataVars, runVars,
            shadowVars, logVars, concVars>>
\* what the entry point leaves alone (it calls the orchestrator)
notRun == <<stack, scopes, exc, guardArgs, guard, dataVars, shadowVars,
            logVars, concVars>>
\* what the shadow auditor, called on its own, leaves alone
notShadow == <<stack, scopes, exc, guardArgs, guard, dataVars, orchVars,
              runVars, logVars, concVars>>
\* what the emitting caller leaves alone
notLog == <<stack, scopes, exc, guardArgs, guard, dataVars, orchVars, runVars,
           shadowVars, concVars>>
\* what the concurrent requests leave alone (each subprocess has its own
\* interpreter; they meet in the file system)
notConc == <<stack, scopes, events, exc, guardArgs, guard, dataVars, orchVars,
            runVars, shadowVars, logVars>>

None == "none"

(***************************************************************************)
(* The idle state of each part: what its variables hold in a specification *)
(* that does not exercise it.                                              *)
(***************************************************************************)
IdleGuard ==
    [pc |-> "idle", attempt |-> 0, calls |-> 0, sleeps |-> <<>>,
     resps |-> <<>>, result |-> None]

GuardIdle ==
    /\ guardArgs = [variant |-> None, max_retries |-> 0, backoff_factor |-> 0]
    /\ guard = IdleGuard

DataIdle ==
    /\ outputs = <<>>
    /\ idx = 0
    /\ dpc = "idle"
    /\ validated_files = <<>>
    /\ failed_calls = <<>>
    /\ hallucinations = <<>>
    /\ generated_files_registry = {}
    /\ fs = <<>>
    /\ invoked = <<>>
    /\ caught = None
    /\ agent_output = None

OrchIdle ==
    /\ region = None
    /\ opc = "idle"
    /\ stageNo = 0
    /\ results = <<>>
    /\ all_hallucinations = <<>>
    /\ started = <<>>
    /\ running = {}
    /\ metrics = <<>>
    /\ oexc = None
    /\ run_out = None

RunIdle ==
    /\ rpc = "idle"
    /\ analysis_year = None
    /\ company_info = None
    /\ resolves = 0
    /\ run_result = None

ShadowIdle ==
    /\ spc = "idle"
    /\ stage_arg = None
    /\ input_data = None
    /\ audit_return = None
    /\ qa_metrics = <<>>

LogIdle ==
    /\ lpc = "idle"
    /\ payloads = <<>>
    /\ dropped = <<>>
    /\ caller_out = None

ConcIdle ==
    /\ procs = <<>>
    /\ disk = <<>>

\* the parts added after the orchestrator, all idle
RestIdle == RunIdle /\ ShadowIdle /\ LogIdle /\ ConcIdle

(***************************************************************************)
(* Bounds of the tracer model.                                             *)
(***************************************************************************)
\* how many scopes one behaviour opens (one pipeline_run, the rest agent_run)
MaxScopes == 2
\* how many times the wrapped code may invoke the callbacks of one scope
MaxCalls == 1

\* the messages an exception or an error callback may carry (str(e))
Msgs == {"e1", "e2"}

ScopeIds == 1..MaxScopes

(***************************************************************************)
(* _log_event: one record appended to the sink.                            *)
(***************************************************************************)
Ev(type, s, m) == [type |-> type, scope |-> s, msg |-> m]

_log_event(log, type, s, m) == Append(log, Ev(type, s, m))

\* the event names of the two kinds of scope
StartType(kind) == IF kind = "pipeline" THEN "pipeline_start" ELSE "agent_start"
EndType(kind)   == IF kind = "pipeline" THEN "pipeline_end"   ELSE "agent_end"
ErrorType(kind) == IF kind = "pipeline" THEN "pipeline_error" ELSE "agent_error"

Top == stack[Len(stack)]
Pop(st) == SubSeq(st, 1, Len(st) - 1)

NextScope == Cardinality({s \in ScopeIds : scopes[s].state # "unopened"}) + 1

NewScope(kind) ==
    [kind |-> kind, state |-> "open", calls |-> 0, raised |-> None, out |-> None]

TracerStart ==
    /\ stack = <<>>
    /\ scopes = [s \in ScopeIds |->
                   [kind |-> None, state |-> "unopened", calls |-> 0,
                    raised |-> None, out |-> None]]
    /\ events = <<>>
    /\ exc = None

(***************************************************************************)
(* pipeline_run up to its yield: the start event is logged and the body    *)
(* of the with-statement begins.                                           *)
(***************************************************************************)
PipelineRunEnter ==
    /\ stack = <<>>
    /\ NextScope = 1
    /\ exc = None
    /\ scopes' = [scopes EXCEPT ![1] = NewScope("pipeline")]
    /\ events' = _log_event(events, StartType("pipeline"), 1, None)
    /\ stack' = <<1>>
    /\ UNCHANGED exc
    /\ UNCHANGED notTracer

(***************************************************************************)
(* agent_run up to its yield, entered from the body of an open scope.      *)
(***************************************************************************)
AgentRunEnter ==
    /\ stack # <<>>
    /\ exc = None
    /\ NextScope \in ScopeIds
    /\ scopes' = [scopes EXCEPT ![NextScope] = NewScope("agent")]
    /\ events' = _log_event(events, StartType("agent"), NextScope, None)
    /\ stack' = Append(stack, NextScope)
    /\ UNCHANGED exc
    /\ UNCHANGED notTracer

(***************************************************************************)
(* The success callback (log_end_pipeline / log_end) of the innermost open *)
(* scope, invoked by the wrapped code (every with-body of the repository   *)
(* calls the callbacks of its own scope only).                             *)
(***************************************************************************)
LogEnd ==
        LET s == Top IN
        /\ stack # <<>>
        /\ exc = None
        /\ scopes[s].calls < MaxCalls
        /\ events' = _log_event(events, EndType(scopes[s].kind), s, None)
        /\ scopes' = [scopes EXCEPT ![s].calls = @ + 1]
        /\ UNCHANGED <<stack, exc>>
        /\ UNCHANGED notTracer

(***************************************************************************)
(* The error callback (log_error_pipeline / log_error) of the innermost     *)
(* open scope.                                                             *)
(***************************************************************************)
LogError ==
    \E m \in Msgs :
        LET s == Top IN
        /\ stack # <<>>
        /\ exc = None
        /\ scopes[s].calls < MaxCalls
        /\ events' = _log_event(events, ErrorType(scopes[s].kind), s, m)
        /\ scopes' = [scopes EXCEPT ![s].calls = @ + 1]
        /\ UNCHANGED <<stack, exc>>
        /\ UNCHANGED notTracer

(***************************************************************************)
(* The wrapped code of the innermost scope raises an exception.            *)
(***************************************************************************)
BodyRaise ==
    \E m \in Msgs :
        /\ stack # <<>>
        /\ exc = None
        /\ exc' = m
        /\ scopes' = [scopes EXCEPT ![Top].raised = m]
        /\ UNCHANGED <<stack, events>>
        /\ UNCHANGED notTracer

(***************************************************************************)
(* The except clause of the context manager: the exception thrown into     *)
(* the generator at the yield is logged with str(e) and re-raised; it then *)
(* propagates through the body of the enclosing scope, if there is one.    *)
(***************************************************************************)
ScopeExceptSwallow ==
    /\ stack # <<>>
    /\ exc # None
    /\ events' = _log_event(events, ErrorType(scopes[Top].kind), Top, exc)
    /\ stack' = Pop(stack)
    /\ scopes' = [scopes EXCEPT ![Top].state = "closed", ![Top].out = "return"]
    /\ exc' = None
    /\ UNCHANGED notTracer

ScopeExcept ==
    /\ stack # <<>>
    /\ exc # None
    /\ events' = _log_event(events, ErrorType(scopes[Top].kind), Top, exc)
    /\ stack' = Pop(stack)
    /\ scopes' = [s \in ScopeIds |->
                    IF s = Top
                    THEN [scopes[s] EXCEPT !.state = "closed", !.out = exc]
                    ELSE IF Len(stack) > 1 /\ s = stack[Len(stack) - 1]
                    THEN [scopes[s] EXCEPT !.raised = exc]
                    ELSE scopes[s]]
    /\ UNCHANGED exc
    /\ UNCHANGED notTracer

(***************************************************************************)
(* The wrapped code of the innermost scope runs to its end: the generator  *)
(* resumes after the yield and finishes; nothing is logged.                *)
(***************************************************************************)
BodyReturn ==
    /\ stack # <<>>
    /\ exc = None
    /\ stack' = Pop(stack)
    /\ scopes' = [scopes EXCEPT ![Top].state = "closed", ![Top].out = "return"]
    /\ UNCHANGED <<events, exc>>
    /\ UNCHANGED notTracer

(***************************************************************************)
(* The rate-limit guard: call_with_rate_limit_handling, in its two         *)
(* variants (us_data_agent.py and in_data_agent.py).                       *)
(***************************************************************************)
\* the default arguments of call_with_rate_limit_handling
max_retries == 3
backoff_factor == 2

\* bounds on the arguments a call of the guard is checked with
MaxRetriesArg == 4
MaxBackoffArg == 3

Variants == {"US", "IN"}

\* What one invocation of the guarded tool can do: return something that is
\* not a rate-limit report ("ok"), return a mapping with status 429 ("s429"),
\* raise an exception whose text contains 429 ("x429"), raise another
\* exception ("xerr").
Responses == {"ok", "s429", "x429", "xerr"}

RECURSIVE Pow(_, _)
Pow(b, e) == IF e = 0 THEN 1 ELSE b * Pow(b, e - 1)

\* wait_time = backoff_factor ** attempt
WaitTimeLinear(bf, attempt) == bf * attempt

WaitTime(bf, attempt) == Pow(bf, attempt)

\* The responses a variant treats as a rate limit: the US variant only looks
\* at the returned mapping, the IN variant also catches exceptions whose
\* text contains "429".
IsRateLimited(variant, r) ==
    \/ r = "s429"
    \/ variant = "IN" /\ r = "x429"

IsException(r) == r \in {"x429", "xerr"}

\* The guard is entered: nothing has been invoked yet.
GuardEntered ==
    [pc |-> "loop", attempt |-> 0, calls |-> 0, sleeps |-> <<>>,
     resps |-> <<>>, result |-> None]

\* One pass of the for loop: api_call_fn() answers r.
GuardAttempt(args, g, r) ==
    LET called == [g EXCEPT !.calls = @ + 1, !.resps = Append(@, r)] IN
    IF IsRateLimited(args.variant, r)
    THEN [called EXCEPT !.sleeps = Append(@, WaitTime(args.backoff_factor, g.attempt)),
                        !.attempt = @ + 1]
    ELSE IF IsException(r)
    THEN [called EXCEPT !.pc = "raised", !.result = r]
    ELSE [called EXCEPT !.pc = "returned", !.result = "response"]

\* The for loop is exhausted: return {"error": "Max retries exceeded ..."}.
GuardExhausted(g) == [g EXCEPT !.pc = "returned", !.result = "max_retries_error"]

GuardCanAttempt(args, g) == g.pc = "loop" /\ g.attempt < args.max_retries
GuardIsExhausted(args, g) == g.pc = "loop" /\ g.attempt >= args.max_retries

GuardStart ==
    /\ guard = IdleGuard
    /\ guardArgs \in [variant : Variants,
                      max_retries : 0..MaxRetriesArg,
                      backoff_factor : 1..MaxBackoffArg]

GuardCall ==
    \E r \in Responses :
        /\ GuardCanAttempt(guardArgs, guard)
        /\ guard' = GuardAttempt(guardArgs, guard, r)
        /\ UNCHANGED guardArgs
        /\ UNCHANGED notGuard

GuardEnter ==
    /\ guard.pc = "idle"
    /\ guard' = GuardEntered
    /\ UNCHANGED guardArgs
    /\ UNCHANGED notGuard

GuardGiveUp ==
    /\ GuardIsExhausted(guardArgs, guard)
    /\ guard' = GuardExhausted(guard)
    /\ UNCHANGED guardArgs
    /\ UNCHANGED notGuard

InitGuard == GuardStart /\ TracerStart /\ DataIdle /\ OrchIdle /\ RestIdle

NextGuard ==
    \/ GuardEnter
    \/ GuardCall
    \/ GuardGiveUp

SpecGuard == InitGuard /\ [][NextGuard]_vars

(***************************************************************************)
(* Guard properties.                                                       *)
(***************************************************************************)
GuardFinished == guard.pc \in {"returned", "raised"}

AlwaysStatus429 == \A i \in 1..Len(guard.resps) : guard.resps[i] = "s429"

DefaultArgs ==
    guardArgs.max_retries = max_retries /\ guardArgs.backoff_factor = backoff_factor

\* C8: a call of the guard whose tool answers status 429 every time invokes
\* the tool max_retries times and no more, sleeps backoff_factor**0,
\* backoff_factor**1, ... after the successive attempts (1, 2, 4 seconds with
\* the default arguments), and returns the max-retries failure result without
\* raising; and a response that is not a rate limit ends the call at once:
\* it is the last invocation, and the call returns it.
C8_RetryCeilingAndBackoff ==
    /\ guard.calls <= guardArgs.max_retries
    /\ guard.calls = Len(guard.resps)
    /\ (GuardFinished /\ AlwaysStatus429) =>
          /\ guard.pc = "returned"
          /\ guard.result = "max_retries_error"
          /\ guard.calls = guardArgs.max_retries
          /\ guard.sleeps = [i \in 1..guardArgs.max_retries |->
                               Pow(guardArgs.backoff_factor, i - 1)]
          /\ DefaultArgs => guard.calls = 3 /\ guard.sleeps = <<1, 2, 4>>
    /\ \A i \in 1..Len(guard.resps) :
          guard.resps[i] = "ok" =>
              /\ i = Len(guard.resps)
              /\ guard.pc = "returned"
              /\ guard.result = "response"

\* C8 witness: with the default arguments, a tool that answered status 429
\* three times; the guard has returned.
C8_Witness ==
    /\ DefaultArgs
    /\ GuardFinished
    /\ guard.resps = <<"s429", "s429", "s429">>

(***************************************************************************)
(* The event log module: the functions event_logger.py defines.  A caller  *)
(* that reaches for any other attribute of the module gets AttributeError. *)
(***************************************************************************)
EventLoggerFunctions ==
    {"setup_logging", "_log_event", "log_pipeline_start", "log_pipeline_end",
     "log_pipeline_error", "log_agent_start", "log_agent_end", "log_agent_error",
     "log_agent_setup", "log_tool_call", "log_tool_result", "log_llm_metrics",
     "log_evaluation_metric", "pipeline_run", "agent_run", "example_usage"}

HasAttr(f) == f \in EventLoggerFunctions

(***************************************************************************)
(* llm_evaluation.py: the retry advisory and the fault classifier.  Both   *)
(* test which terms the (lower-cased) text contains; a text is given here  *)
(* by the set of terms of interest it contains.                            *)
(***************************************************************************)
llm_should_retry(reasonTerms) ==
    IF reasonTerms \cap {"timeout", "rate limit", "empty"} # {} THEN "retry"
    ELSE IF "irrelevant" \in reasonTerms THEN "switch"
    ELSE "no_action"

\* f"Empty or missing file: {fpath}", lower-cased
EmptyOrMissingFile == {"empty", "missing"}

\* the terms of interest each failure_type the stages pass contains
FailureTerms(failure_type) ==
    CASE failure_type = "invalid_text_output" -> {}
      [] failure_type = "invalid_image"       -> {}
      [] failure_type = "tool_crash"          -> {"tool_crash"}
      [] failure_type = "low_content_density" -> {}
      [] failure_type = "unmatched_file"      -> {}
      [] OTHER                                -> {}

classify_hallucination_type(failure_type) ==
    LET terms == FailureTerms(failure_type) IN
    IF "missing" \in terms THEN "missing_output"
    ELSE IF "timeout" \in terms THEN "api_timeout"
    ELSE IF "short" \in terms THEN "undergenerated"
    ELSE IF "tool_crash" \in terms THEN "tool_exception"
    ELSE "unknown"

(***************************************************************************)
(* The Data stage: DataCoTAgentUS.run and DataCoTAgentIN.run.              *)
(***************************************************************************)
\* The manifest of run(): nine entries, seven texts and two images.
Manifest ==
    << [file |-> "01_income_statement.txt",     type |-> "txt"],
       [file |-> "02_balance_sheet.txt",        type |-> "txt"],
       [file |-> "03_cash_flow.txt",            type |-> "txt"],
       [file |-> "04_risk_analysis.txt",        type |-> "txt"],
       [file |-> "05_competitor_analysis.txt",  type |-> "txt"],
       [file |-> "06_business_highlights.txt",  type |-> "txt"],
       [file |-> "07_company_description.txt",  type |-> "txt"],
       [file |-> "pe_eps_performance.png",      type |-> "img"],
       [file |-> "share_price_performance.png", type |-> "img"] >>

\* how many consecutive entries of the manifest one checked execution runs
MaxManifest == 3

\* The manifests checked: the first and the last MaxManifest entries of the
\* manifest, as written and with one entry retargeted to the output path of
\* an earlier one (two tools writing the same file).
Window(k) == [i \in 1..MaxManifest |-> Manifest[k + i - 1]]

Retarget(m, i, j) == [m EXCEPT ![j].file = m[i].file]

Manifests ==
    LET windows == {Window(1), Window(Len(Manifest) - MaxManifest + 1)} IN
    windows \cup {Retarget(m, i, j) : m \in windows,
                                      i \in 1..MaxManifest, j \in 1..MaxManifest}

FilesOf(m) == {m[i].file : i \in 1..Len(m)}

\* validation thresholds, in bytes
TextMinSize == 3
ImageMinSize == 10 * 1024

\* the "size" of a path at which no file exists (os.path.exists is False)
Absent == -1

\* What one invocation of a tool leaves at its output path: nothing new
\* (Absent), or a file of a size around the threshold of its type.
WriteOutcomes(type) ==
    IF type = "txt" THEN {Absent, TextMinSize - 1, TextMinSize, TextMinSize + 1}
                    ELSE {Absent, ImageMinSize, ImageMinSize + 1}

Write(dir, f, w) == IF w = Absent THEN dir ELSE [dir EXCEPT ![f] = w]

\* a validation that accepts a file of exactly the threshold size
IsValidAtLeast(type, size) ==
    /\ size # Absent
    /\ size >= (IF type = "txt" THEN TextMinSize ELSE ImageMinSize)

\* os.path.exists(fpath) and os.path.getsize(fpath) > threshold
IsValid(type, size) ==
    /\ size # Absent
    /\ size > (IF type = "txt" THEN TextMinSize ELSE ImageMinSize)

Entry == outputs[idx]

\* "TERMINATE" if len(validated_files) == len(outputs) else "FAILED"
StageStatusFromFailed ==
    IF Len(validated_files) = Len(failed_calls) THEN "TERMINATE" ELSE "FAILED"

\* a status that does not look at the validated files
StageStatusAlwaysFailed == "FAILED"

StageStatus ==
    IF Len(validated_files) = Len(outputs) THEN "TERMINATE" ELSE "FAILED"

Fault(i, text) == [entry |-> i, text |-> text]

DataStart ==
    /\ guardArgs \in [variant : Variants, max_retries : {max_retries},
                      backoff_factor : {backoff_factor}]
    /\ guard = IdleGuard
    /\ outputs \in Manifests
    /\ idx = 1
    /\ dpc = "start"
    /\ validated_files = <<>>
    /\ failed_calls = <<>>
    /\ hallucinations = <<>>
    /\ generated_files_registry = {}
    /\ fs = [f \in FilesOf(outputs) |-> Absent]
    /\ invoked = [i \in 1..Len(outputs) |-> 0]
    /\ caught = None
    /\ agent_output = None

\* run() up to the for loop: the agent_start event.
DataBegin ==
    /\ dpc = "start"
    /\ events' = _log_event(events, "agent_start", "data", None)
    /\ dpc' = "loop"
    /\ UNCHANGED <<guardArgs, guard, outputs, idx, validated_files, failed_calls,
                   hallucinations, generated_files_registry, fs, invoked, caught,
                   agent_output>>
    /\ UNCHANGED notData

\* The loop reaches an entry whose output path is already in the registry:
\* the fault is appended and log_hallucination_metric is called, outside any
\* try block; then `continue`.
DataDuplicate ==
    /\ dpc = "loop"
    /\ idx <= Len(outputs)
    /\ Entry.file \in generated_files_registry
    /\ hallucinations' = Append(hallucinations, Fault(idx, "File written multiple times"))
    /\ IF HasAttr("log_hallucination_metric")
       THEN /\ events' = _log_event(events, "hallucination_metric", idx, "duplicate_output")
            /\ idx' = idx + 1
            /\ UNCHANGED <<dpc, agent_output>>
       ELSE /\ dpc' = "raised"
            /\ agent_output' = [raised |-> "AttributeError"]
            /\ UNCHANGED <<events, idx>>
    /\ UNCHANGED <<guardArgs, guard, outputs, validated_files, failed_calls,
                   generated_files_registry, fs, invoked, caught>>
    /\ UNCHANGED notData

\* The loop reaches an entry with a new output path: the path is registered,
\* the tool_call event logged, and the try block entered with the guarded call.
DataToolCall ==
    /\ dpc = "loop"
    /\ idx <= Len(outputs)
    /\ Entry.file \notin generated_files_registry
    /\ generated_files_registry' = generated_files_registry \cup {Entry.file}
    /\ events' = _log_event(events, "tool_call", idx, None)
    /\ guard' = GuardEntered
    /\ dpc' = "guard"
    /\ UNCHANGED <<guardArgs, outputs, idx, validated_files, failed_calls,
                   hallucinations, fs, invoked, caught, agent_output>>
    /\ UNCHANGED notData

\* One pass of the guard's loop: the tool is invoked, answers r and leaves w
\* at its output path.
DataInvoke ==
    /\ dpc \in {"guard", "retry_guard"}
    /\ GuardCanAttempt(guardArgs, guard)
    /\ \E r \in Responses, w \in WriteOutcomes(Entry.type) :
        /\ guard' = GuardAttempt(guardArgs, guard, r)
        /\ fs' = Write(fs, Entry.file, w)
    /\ invoked' = [invoked EXCEPT ![idx] = @ + 1]
    /\ UNCHANGED <<guardArgs, outputs, idx, dpc, validated_files, failed_calls,
                   hallucinations, generated_files_registry, caught,
                   agent_output, events>>
    /\ UNCHANGED notData

\* The guard's loop is exhausted: it returns the max-retries error mapping.
DataGuardGiveUp ==
    /\ dpc \in {"guard", "retry_guard"}
    /\ GuardIsExhausted(guardArgs, guard)
    /\ guard' = GuardExhausted(guard)
    /\ UNCHANGED <<guardArgs, outputs, idx, dpc, validated_files, failed_calls,
                   hallucinations, generated_files_registry, fs, invoked, caught,
                   agent_output, events>>
    /\ UNCHANGED notData

\* The guard let an exception of the tool through: control goes to the
\* except clause of the entry's try block.
DataGuardRaised ==
    /\ dpc \in {"guard", "retry_guard"}
    /\ guard.pc = "raised"
    /\ caught' = "tool"
    /\ dpc' = "except"
    /\ guard' = IdleGuard
    /\ UNCHANGED <<guardArgs, outputs, idx, validated_files, failed_calls,
                   hallucinations, generated_files_registry, fs, invoked,
                   agent_output, events>>
    /\ UNCHANGED notData

\* The guarded call returned: the output file is validated.  A valid file is
\* appended to validated_files and the tool_result event logged; an invalid
\* text consults llm_should_retry; an invalid image goes to its fault.
DataValidate ==
    /\ dpc = "guard"
    /\ guard.pc = "returned"
    /\ IF IsValid(Entry.type, fs[Entry.file])
       THEN /\ validated_files' = Append(validated_files, Entry.file)
            /\ events' = _log_event(events, "tool_result", idx, "success")
            /\ idx' = idx + 1
            /\ dpc' = "loop"
            /\ guard' = IdleGuard
            /\ UNCHANGED fs
       ELSE /\ UNCHANGED <<validated_files, events, idx>>
            /\ IF Entry.type = "txt"
               THEN LET decision == llm_should_retry(EmptyOrMissingFile) IN
                    CASE decision = "retry" /\ guardArgs.variant = "US" ->
                            dpc' = "retry_call" /\ guard' = IdleGuard /\ UNCHANGED fs
                      [] decision = "retry" /\ guardArgs.variant = "IN" ->
                            dpc' = "retry_guard" /\ guard' = GuardEntered /\ UNCHANGED fs
                      [] decision = "switch" ->
                            /\ dpc' = "fault"
                            /\ fs' = Write(fs, Entry.file, ImageMinSize)
                            /\ guard' = IdleGuard
                      [] OTHER -> dpc' = "fault" /\ guard' = IdleGuard /\ UNCHANGED fs
               ELSE dpc' = "fault" /\ guard' = IdleGuard /\ UNCHANGED fs
    /\ UNCHANGED <<guardArgs, outputs, failed_calls, hallucinations,
                   generated_files_registry, invoked, caught, agent_output>>
    /\ UNCHANGED notData

\* US variant, decision "retry": tool_call(ticker, fyear, fpath) is invoked
\* once more, directly; what it returns is ignored, what it raises goes to
\* the except clause.
DataRetryCall ==
    /\ dpc = "retry_call"
    /\ \E r \in Responses, w \in WriteOutcomes(Entry.type) :
        /\ fs' = Write(fs, Entry.file, w)
        /\ IF IsException(r)
           THEN caught' = "tool" /\ dpc' = "except"
           ELSE dpc' = "fault" /\ UNCHANGED caught
    /\ invoked' = [invoked EXCEPT ![idx] = @ + 1]
    /\ UNCHANGED <<guardArgs, guard, outputs, idx, validated_files, failed_calls,
                   hallucinations, generated_files_registry, agent_output, events>>
    /\ UNCHANGED notData

\* IN variant, decision "retry": the second guarded call returned.
DataRetryReturned ==
    /\ dpc = "retry_guard"
    /\ guard.pc = "returned"
    /\ dpc' = "fault"
    /\ guard' = IdleGuard
    /\ UNCHANGED <<guardArgs, outputs, idx, validated_files, failed_calls,
                   hallucinations, generated_files_registry, fs, invoked, caught,
                   agent_output, events>>
    /\ UNCHANGED notData

\* The validation fault of the entry: failed_calls and hallucinations get
\* their entry, then log_hallucination_metric is called, inside the try
\* block; after it the tool_result event (success False) and the next entry.
DataFault ==
    /\ dpc = "fault"
    /\ failed_calls' = Append(failed_calls, Entry.file)
    /\ LET failure_type == IF Entry.type = "txt" THEN "invalid_text_output"
                                                ELSE "invalid_image"
           halluc_type == classify_hallucination_type(failure_type) IN
       /\ hallucinations' = Append(hallucinations, Fault(idx, halluc_type))
       /\ IF HasAttr("log_hallucination_metric")
          THEN /\ events' = _log_event(
                              _log_event(events, "hallucination_metric", idx, halluc_type),
                              "tool_result", idx, "failure")
               /\ idx' = idx + 1
               /\ dpc' = "loop"
               /\ UNCHANGED caught
          ELSE /\ caught' = "AttributeError"
               /\ dpc' = "except"
               /\ UNCHANGED <<events, idx>>
    /\ UNCHANGED <<guardArgs, guard, outputs, validated_files,
                   generated_files_registry, fs, invoked, agent_output>>
    /\ UNCHANGED notData

\* an except clause that does not log the tool_result event
DataExceptSilent ==
    /\ dpc = "except"
    /\ failed_calls' = Append(failed_calls, Entry.file)
    /\ hallucinations' = Append(hallucinations, Fault(idx, caught))
    /\ LET halluc_type == classify_hallucination_type("tool_crash") IN
       IF HasAttr("log_hallucination_metric")
       THEN /\ events' = _log_event(events, "hallucination_metric", idx, halluc_type)
            /\ idx' = idx + 1
            /\ dpc' = "loop"
            /\ UNCHANGED agent_output
       ELSE /\ UNCHANGED events
            /\ dpc' = "raised"
            /\ agent_output' = [raised |-> "AttributeError"]
            /\ UNCHANGED idx
    /\ caught' = None
    /\ UNCHANGED <<guardArgs, guard, outputs, validated_files,
                   generated_files_registry, fs, invoked>>
    /\ UNCHANGED notData

\* The except clause of the entry's try block: failed_calls and
\* hallucinations get an entry for the exception, the tool_result event
\* (success False) is logged, then log_hallucination_metric is called; after
\* it the next entry.
DataExcept ==
    /\ dpc = "except"
    /\ failed_calls' = Append(failed_calls, Entry.file)
    /\ hallucinations' = Append(hallucinations, Fault(idx, caught))
    /\ LET halluc_type == classify_hallucination_type("tool_crash")
           logged == _log_event(events, "tool_result", idx, "failure") IN
       IF HasAttr("log_hallucination_metric")
       THEN /\ events' = _log_event(logged, "hallucination_metric", idx, halluc_type)
            /\ idx' = idx + 1
            /\ dpc' = "loop"
            /\ UNCHANGED agent_output
       ELSE /\ events' = logged
            /\ dpc' = "raised"
            /\ agent_output' = [raised |-> "AttributeError"]
            /\ UNCHANGED idx
    /\ caught' = None
    /\ UNCHANGED <<guardArgs, guard, outputs, validated_files,
                   generated_files_registry, fs, invoked>>
    /\ UNCHANGED notData

\* After the loop: the llm_metrics and "Tool Failure Analysis" events, the
\* result mapping, the agent_end event, return.
DataFinish ==
    /\ dpc = "loop"
    /\ idx > Len(outputs)
    /\ agent_output' = [validated_files |-> validated_files,
                        failed_files |-> failed_calls,
                        hallucinations |-> hallucinations,
                        status |-> StageStatus]
    /\ events' = _log_event(
                   _log_event(
                     _log_event(events, "llm_metrics", "data", None),
                     "evaluation_metric", "Tool Failure Analysis",
                     IF hallucinations = <<>> THEN "1.0" ELSE "0.0"),
                   "agent_end", "data", None)
    /\ dpc' = "returned"
    /\ UNCHANGED <<guardArgs, guard, outputs, idx, validated_files, failed_calls,
                   hallucinations, generated_files_registry, fs, invoked, caught>>
    /\ UNCHANGED notData

InitData == DataStart /\ TracerStart /\ OrchIdle /\ RestIdle

NextData ==
    \/ DataBegin
    \/ DataDuplicate
    \/ DataToolCall
    \/ DataInvoke
    \/ DataGuardGiveUp
    \/ DataGuardRaised
    \/ DataValidate
    \/ DataRetryCall
    \/ DataRetryReturned
    \/ DataFault
    \/ DataExcept
    \/ DataFinish

SpecData == InitData /\ [][NextData]_vars

(***************************************************************************)
(* Data stage properties.                                                  *)
(***************************************************************************)
Returned == dpc = "returned"

\* entry j targets the output path of an earlier entry
IsDuplicateEntry(j) == \E i \in 1..(j - 1) : outputs[i].file = outputs[j].file

\* the loop is past entry j, or stopped at it
Handled(j) == idx > j \/ (idx = j /\ dpc = "raised")

FaultsOf(j) == SelectSeq(hallucinations, LAMBDA h : h.entry = j)

\* C3: every result a Data stage execution returns has status "TERMINATE"
\* exactly when it lists as many validated files as the manifest has
\* entries, and status "FAILED" otherwise.
C3_StatusIffAllValidated ==
    Returned =>
        /\ agent_output.status \in {"TERMINATE", "FAILED"}
        /\ agent_output.status = "TERMINATE"
              <=> Len(agent_output.validated_files) = Len(outputs)

\* C3 witness: an execution of a full manifest has returned, one of its
\* tools having been invoked again after a rate-limit answer.
C3_Witness ==
    /\ Returned
    /\ Len(outputs) = MaxManifest
    /\ Len(agent_output.validated_files) = MaxManifest
    /\ \E j \in 1..Len(outputs) : invoked[j] > 1

C9_FailingToolIsIsolated ==
    /\ dpc # "raised"
    /\ \A j \in 1..Len(outputs) :
          (Handled(j) /\ ~IsDuplicateEntry(j)) =>
              \/ /\ outputs[j].file \in {validated_files[k] : k \in 1..Len(validated_files)}
                 /\ FaultsOf(j) = <<>>
              \/ Len(FaultsOf(j)) = 1
    /\ Returned => idx = Len(outputs) + 1

\* the file at the entry's path exists and is larger than 3 bytes (text) or
\* 10 KiB (image)
SizeAboveThreshold ==
    /\ fs[Entry.file] # Absent
    /\ fs[Entry.file] > (IF Entry.type = "txt" THEN 3 ELSE 10240)

\* the entries of the manifest that were handled and not validated
NotValidated ==
    {j \in 1..Len(outputs) :
        /\ Handled(j)
        /\ outputs[j].file \notin {validated_files[k] : k \in 1..Len(validated_files)}}

\* C22: when an entry's file is validated, the entry is added to the validated
\* files exactly when its file exists with more than 3 bytes (text) or more
\* than 10240 bytes (image); and an execution in which one text entry failed
\* validation and every other entry passed returns a result with one
\* validated file per other entry, one fault for that entry and status
\* "FAILED".
C22_ThresholdsAndOneSmallText ==
    /\ [][(dpc = "guard" /\ guard.pc = "returned") =>
              (validated_files' = Append(validated_files, Entry.file)
                  <=> SizeAboveThreshold)]_vars
    /\ [](\A j \in 1..Len(outputs) :
              (NotValidated = {j} /\ outputs[j].type = "txt"
                 /\ (\A i \in 1..Len(outputs) : ~IsDuplicateEntry(i))
                 /\ (idx > Len(outputs) \/ dpc = "raised")) =>
                  /\ dpc # "raised"
                  /\ Len(FaultsOf(j)) = 1
                  /\ Len(hallucinations) = 1
                  /\ Returned =>
                        /\ Len(agent_output.validated_files) = Len(outputs) - 1
                        /\ agent_output.status = "FAILED")

\* the positions in the event stream of the events of one type for entry j
PositionsOf(type, j) ==
    {n \in 1..Len(events) : events[n].type = type /\ events[n].scope = j}

\* C23: entries are processed one at a time in manifest order; every entry
\* whose tool is invoked has one tool_call event, emitted before the first
\* invocation, and, once the loop is done with the entry, exactly one
\* tool_result event carrying the success flag, emitted after the entry's
\* tool_call and before the tool_call of any later entry; an entry skipped
\* as duplicate has neither event.
C23_ToolCallThenOneToolResult ==
    \A j \in 1..Len(outputs) :
        LET calls == PositionsOf("tool_call", j)
            rets == PositionsOf("tool_result", j) IN
        /\ Cardinality(calls) <= 1
        /\ Cardinality(rets) <= 1
        /\ invoked[j] > 0 => Cardinality(calls) = 1
        /\ j > idx => (invoked[j] = 0 /\ calls = {} /\ rets = {})
        /\ (Handled(j) /\ invoked[j] > 0) => Cardinality(rets) = 1
        /\ (idx = j /\ dpc # "raised") => rets = {}
        /\ IsDuplicateEntry(j) => (calls = {} /\ rets = {})
        /\ \A r \in rets :
              /\ \A c \in calls : c < r
              /\ events[r].msg \in {"success", "failure"}
              /\ events[r].msg = "success"
                    <=> outputs[j].file \in
                            {validated_files[k] : k \in 1..Len(validated_files)}
              /\ \A k \in (j + 1)..Len(outputs) :
                     \A c \in PositionsOf("tool_call", k) : r < c

\* C23 witness: the first entry's tool was invoked and validated, the second
\* entry's tool was invoked more than once and failed; each has its
\* tool_call and its one tool_result in the stream.
C23_Witness ==
    /\ Len(outputs) >= 2
    /\ Handled(2)
    /\ invoked[1] > 0
    /\ invoked[2] > 1
    /\ \E r \in PositionsOf("tool_result", 1) : events[r].msg = "success"
    /\ \E r \in PositionsOf("tool_result", 2) : events[r].msg = "failure"

\* the categories a classified fault can carry
FaultCategories ==
    {"invalid_text_output", "missing_output", "invalid_image", "unmatched_file",
     "tool_exception", "api_timeout", "undergenerated", "unknown"}

\* the categories that fit a validation failure of an entry of the given type
CategoriesOfKind(type) ==
    IF type = "txt" THEN {"invalid_text_output", "missing_output"}
    ELSE {"invalid_image"}

\* C24: every fault recorded on a validation failure carries the category of
\* its failure kind: a text entry's fault invalid_text_output or
\* missing_output, an image entry's fault invalid_image; never unknown.
C24_FaultClassifiedByKind ==
    \A n \in 1..Len(hallucinations) :
        LET h == hallucinations[n] IN
        h.text \in FaultCategories =>
            h.text \in CategoriesOfKind(outputs[h.entry].type)

\* C25: within one execution no tool is invoked more than 3 times for its
\* manifest entry, the attempts inside the rate-limit guard and the
\* re-invocation after the retry advisory counted together.
C25_AtMostThreeInvocationsPerEntry ==
    \A j \in 1..Len(outputs) : invoked[j] <= 3

\* entry j failed its validation and reached its fault (for a text entry,
\* after the retry advisory was followed)
FailedValidation(j) ==
    \E n \in 1..Len(hallucinations) :
        hallucinations[n].entry = j /\ hallucinations[n].text \in FaultCategories

\* C27: a text entry that failed validation stays failed whatever the retry
\* produced: its tool is invoked once more and no more, the entry has one
\* fault, is not among the validated files even if a valid file is now at
\* its path, its tool_result says failure, and the stage ends by returning
\* status "FAILED".
C27_RetryNeverRevalidated ==
    \A j \in 1..Len(outputs) :
        (outputs[j].type = "txt" /\ FailedValidation(j) /\ Handled(j)) =>
            /\ invoked[j] <= max_retries + 1
            /\ Len(FaultsOf(j)) = 1
            /\ j \in NotValidated
            /\ \A r \in PositionsOf("tool_result", j) : events[r].msg = "failure"
            /\ dpc # "raised"
            /\ Returned => agent_output.status = "FAILED"

\* entry j is the entry its file was validated for
ValidatedEntry(j) ==
    /\ ~IsDuplicateEntry(j)
    /\ \E k \in 1..Len(validated_files) : validated_files[k] = outputs[j].file

\* C28: in the result of an execution that returned every manifest entry is
\* accounted for exactly once: the validated files and the hallucinations
\* together are as many as the manifest has entries, every entry has either
\* its validated file or one fault and never both, and the hallucinations
\* are empty exactly when the status is "TERMINATE".
C28_EveryEntryAccountedOnce ==
    Returned =>
        /\ agent_output.validated_files = validated_files
        /\ agent_output.hallucinations = hallucinations
        /\ Len(validated_files) + Len(hallucinations) = Len(outputs)
        /\ \A j \in 1..Len(outputs) :
              /\ ValidatedEntry(j) => FaultsOf(j) = <<>>
              /\ ~ValidatedEntry(j) => Len(FaultsOf(j)) = 1
        /\ \A a, b \in 1..Len(validated_files) :
              validated_files[a] = validated_files[b] => a = b
        /\ agent_output.hallucinations = <<>>
              <=> agent_output.status = "TERMINATE"

\* C28 witness: an execution of the IN stage returned, each entry's tool
\* having been invoked and one of them more than once.
C28_Witness ==
    /\ Returned
    /\ guardArgs.variant = "IN"
    /\ \A j \in 1..Len(outputs) : invoked[j] >= 1 /\ ValidatedEntry(j)
    /\ \E j \in 1..Len(outputs) : invoked[j] = max_retries

(***************************************************************************)
(* The orchestrator.  CoTPipeline.run calls ExpertInvestor.run, which      *)
(* calls the three stage agents in turn and the shadow auditor after each. *)
(* The agents are the collaborators handed over in `context`: a call of a  *)
(* stage's run() either returns one of the mappings that run() builds or   *)
(* raises.                                                                 *)
(***************************************************************************)
\* how many faults the hallucination list of one stage result holds
MaxFaults == 1

Faults == {"x", "y"}

RECURSIVE ListsUpTo(_)
ListsUpTo(n) ==
    IF n = 0 THEN {<<>>}
    ELSE LET shorter == ListsUpTo(n - 1) IN
         shorter \cup {Append(l, f) : l \in {s \in shorter : Len(s) = n - 1},
                                      f \in Faults}

FaultLists == ListsUpTo(MaxFaults)

Regions == {"US", "IN"}
Statuses == {"TERMINATE", "FAILED"}

\* the stage= arguments of the three shadow.run calls, in code order
Stages == <<"Data Gathering", "Analysis", "Final Compilation">>

Result(keys, status, hs) ==
    [keys |-> keys, status |-> status, hallucinations |-> hs]

NoResult == Result({}, None, <<>>)

\* the keys of the mapping each stage's run() returns
DataKeys(rg) ==
    IF rg = "US"
    THEN {"validated_files", "failed_files", "hallucinations", "tool_stats", "status"}
    ELSE {"created_files", "hallucinations", "failed_files", "tool_stats", "status"}

AnalysisKeys == {"status", "outputs", "summary_stats", "hallucinations"}
ReportKeys == {"pdf_path", "sections", "hallucinations", "build_status", "status"}
FailedReportKeys == {"status", "message"}

StageReturns(k, rg) ==
    IF k = 1 THEN {Result(DataKeys(rg), s, h) : s \in Statuses, h \in FaultLists}
    ELSE IF k = 2 THEN {Result(AnalysisKeys, s, h) : s \in Statuses, h \in FaultLists}
    ELSE {Result(ReportKeys, "TERMINATE", h) : h \in FaultLists}
         \cup {Result(FailedReportKeys, "FAILED", <<>>)}

\* result.get("hallucinations", [])
GetHallucinations(result) ==
    IF "hallucinations" \in result.keys THEN result.hallucinations ELSE <<>>

\* llm_judge_explanation: the replies it can return for a list (the model's
\* text, or the placeholder it returns when the request fails)
JudgeReplies == {"judge explanation", "[LLM explanation failed]"}

llm_judge_explanation(hs) ==
    IF hs = <<>> THEN {"No hallucinations detected."} ELSE JudgeReplies

Metric(run_id, name, score, reasoning, count) ==
    [run_id |-> run_id, metric_name |-> name, score |-> score,
     reasoning |-> reasoning, count |-> count]

\* log_evaluation_metric: one evaluation_metric record appended to the sink
log_evaluation_metric(ms, run_id, name, score, reasoning, count) ==
    Append(ms, Metric(run_id, name, score, reasoning, count))

\* ExpertInvestorShadow.run: one "QA Issue" metric per issue, in the order the
\* issues are found; it is called without a run_id
ShadowMetrics(ms, result, reply) ==
    LET qa(reasoning) == <<Metric(None, "QA Issue", "0.0", reasoning, 0)>> IN
    ms \o (IF "created_files" \notin result.keys
           THEN qa("Missing key: created_files") ELSE <<>>)
       \o (IF "status" \notin result.keys
           THEN qa("Missing key: status") ELSE <<>>)
       \o (IF GetHallucinations(result) # <<>> THEN qa(reply) ELSE <<>>)

\* all_hallucinations += result.get("hallucinations", [])
AggregateNewestFirst(all, result) == GetHallucinations(result) \o all

Aggregate(all, result) == all \o GetHallucinations(result)

\* where ExpertInvestor.run goes after stage k: the next stage, whatever the
\* result says, and the evaluation after the last one
AfterStageStopOnFailed(k, result) ==
    IF k < Len(Stages) /\ result.status # "FAILED" THEN "stage" ELSE "evaluate"

AfterStage(k, result) ==
    IF k < Len(Stages) THEN "stage" ELSE "evaluate"

CannedReasoning ==
    "All stages completed successfully without any hallucination indicators."

\* score = 0.0 if all_hallucinations else 1.0
FaithfulnessScoreLenient(hs) == IF Len(hs) > 1 THEN "0.0" ELSE "1.0"

FaithfulnessScore(hs) == IF hs # <<>> THEN "0.0" ELSE "1.0"

FaithfulnessReasonings(hs) ==
    IF hs # <<>> THEN llm_judge_explanation(hs) ELSE {CannedReasoning}

PipelineCannedReasoning ==
    "Report appears internally consistent and free of hallucinations."

OrchStart ==
    /\ region \in Regions
    /\ opc = "start"
    /\ stageNo = 0
    /\ results = [k \in 1..Len(Stages) |-> NoResult]
    /\ all_hallucinations = <<>>
    /\ started = <<>>
    /\ running = {}
    /\ metrics = <<>>
    /\ oexc = None
    /\ run_out = None

\* CoTPipeline.run up to the call of the orchestrator: the pipeline_start event
PipelineBegin ==
    /\ opc = "start"
    /\ events' = _log_event(events, "pipeline_start", "run", region)
    /\ opc' = "expert"
    /\ UNCHANGED <<region, stageNo, results, all_hallucinations, started,
                   running, metrics, oexc, run_out>>
    /\ UNCHANGED notOrch

\* ExpertInvestor.run up to the first stage: its agent_start event, the
\* collaborators read from the context, all_hallucinations = []
ExpertInvestorBegin ==
    /\ opc = "expert"
    /\ events' = _log_event(events, "agent_start", "Expert_Investor", None)
    /\ all_hallucinations' = <<>>
    /\ stageNo' = 1
    /\ opc' = "stage"
    /\ UNCHANGED <<region, results, started, running, metrics, oexc, run_out>>
    /\ UNCHANGED notOrch

\* the agent_start event of a stage and the call of its agent's run()
StageStart ==
    /\ opc = "stage"
    /\ events' = _log_event(events, "agent_start", Stages[stageNo], None)
    /\ started' = Append(started, Stages[stageNo])
    /\ running' = running \cup {Stages[stageNo]}
    /\ opc' = "running"
    /\ UNCHANGED <<region, stageNo, results, all_hallucinations, metrics, oexc,
                   run_out>>
    /\ UNCHANGED notOrch

\* the stage's run() returns a mapping: it is kept, and the agent_end event
\* of the stage is written
StageReturn ==
    /\ opc = "running"
    /\ \E res \in StageReturns(stageNo, region) :
          /\ results' = [results EXCEPT ![stageNo] = res]
          /\ events' = _log_event(events, "agent_end", Stages[stageNo], res.status)
    /\ running' = running \ {Stages[stageNo]}
    /\ opc' = "shadow"
    /\ UNCHANGED <<region, stageNo, all_hallucinations, started, metrics, oexc,
                   run_out>>
    /\ UNCHANGED notOrch

\* the stage's run() raises: control goes to the except clause of
\* ExpertInvestor.run
StageRaise ==
    /\ opc = "running"
    /\ \E m \in Msgs : oexc' = m
    /\ running' = running \ {Stages[stageNo]}
    /\ opc' = "expert_except"
    /\ UNCHANGED <<region, stageNo, results, all_hallucinations, started,
                   metrics, events, run_out>>
    /\ UNCHANGED notOrch

\* a caller that keeps what shadow.run returns in place of the stage's result:
\* the audit report whenever the auditor found an issue
ShadowRunReplacing ==
    /\ opc = "shadow"
    /\ \E reply \in llm_judge_explanation(GetHallucinations(results[stageNo])) :
          metrics' = ShadowMetrics(metrics, results[stageNo], reply)
    /\ events' = _log_event(
                   _log_event(events, "agent_start", "Expert_Investor_Shadow",
                              Stages[stageNo]),
                   "agent_end", "Expert_Investor_Shadow", Stages[stageNo])
    /\ results' = IF {"created_files", "status"} \subseteq results[stageNo].keys
                     /\ GetHallucinations(results[stageNo]) = <<>>
                  THEN results
                  ELSE [results EXCEPT ![stageNo] =
                           Result({"stage", "issues", "status"}, "FAILED", <<>>)]
    /\ opc' = "aggregate"
    /\ UNCHANGED <<region, stageNo, all_hallucinations, started,
                   running, oexc, run_out>>
    /\ UNCHANGED notOrch

\* shadow.run(result, stage=...): its agent_start event, one "QA Issue" metric
\* per issue, its agent_end event; what it returns is dropped by the caller
ShadowRun ==
    /\ opc = "shadow"
    /\ \E reply \in llm_judge_explanation(GetHallucinations(results[stageNo])) :
          metrics' = ShadowMetrics(metrics, results[stageNo], reply)
    /\ events' = _log_event(
                   _log_event(events, "agent_start", "Expert_Investor_Shadow",
                              Stages[stageNo]),
                   "agent_end", "Expert_Investor_Shadow", Stages[stageNo])
    /\ opc' = "aggregate"
    /\ UNCHANGED <<region, stageNo, results, all_hallucinations, started,
                   running, oexc, run_out>>
    /\ UNCHANGED notOrch

\* all_hallucinations += result.get("hallucinations", []), then on to the
\* next stage or to the evaluation
StageAggregate ==
    /\ opc = "aggregate"
    /\ all_hallucinations' = Aggregate(all_hallucinations, results[stageNo])
    /\ opc' = AfterStage(stageNo, results[stageNo])
    /\ stageNo' = IF AfterStage(stageNo, results[stageNo]) = "stage"
                  THEN stageNo + 1 ELSE stageNo
    /\ UNCHANGED <<region, results, started, running, metrics, events, oexc,
                   run_out>>
    /\ UNCHANGED notOrch

\* the "Orchestration Faithfulness" metric, the orchestrator's agent_end
\* event, return report
Evaluate ==
    /\ opc = "evaluate"
    /\ \E reasoning \in FaithfulnessReasonings(all_hallucinations) :
          metrics' = log_evaluation_metric(metrics, "run",
                         "Orchestration Faithfulness",
                         FaithfulnessScore(all_hallucinations), reasoning,
                         Len(all_hallucinations))
    /\ events' = _log_event(events, "agent_end", "Expert_Investor", None)
    /\ opc' = "audit"
    /\ UNCHANGED <<region, stageNo, results, all_hallucinations, started,
                   running, oexc, run_out>>
    /\ UNCHANGED notOrch

\* except Exception as e: log_agent_error(...); raise
ExpertInvestorExcept ==
    /\ opc = "expert_except"
    /\ events' = _log_event(events, "agent_error", "Expert_Investor", oexc)
    /\ opc' = "pipeline_except"
    /\ UNCHANGED <<region, stageNo, results, all_hallucinations, started,
                   running, metrics, oexc, run_out>>
    /\ UNCHANGED notOrch

\* CoTPipeline.run after the orchestrator returned: the "Pipeline Output
\* Faithfulness" metric over the report's own list, the pipeline_end event,
\* return report
PipelineFinish ==
    /\ opc = "audit"
    /\ LET report == results[Len(Stages)]
           hs == GetHallucinations(report) IN
       /\ \E summary \in (IF hs # <<>> THEN llm_judge_explanation(hs)
                                       ELSE {PipelineCannedReasoning}) :
             metrics' = log_evaluation_metric(metrics, "run",
                            "Pipeline Output Faithfulness",
                            IF hs # <<>> THEN "0.0" ELSE "1.0", summary, Len(hs))
       /\ events' = _log_event(events, "pipeline_end", "run", report.status)
       /\ run_out' = [returned |-> report]
    /\ opc' = "done"
    /\ UNCHANGED <<region, stageNo, results, all_hallucinations, started,
                   running, oexc>>
    /\ UNCHANGED notOrch

\* an except clause that logs the error and returns instead of re-raising
PipelineExceptSwallow ==
    /\ opc = "pipeline_except"
    /\ events' = _log_event(events, "pipeline_error", "run", oexc)
    /\ run_out' = [returned |-> NoResult]
    /\ opc' = "done"
    /\ UNCHANGED <<region, stageNo, results, all_hallucinations, started,
                   running, metrics, oexc>>
    /\ UNCHANGED notOrch

\* except Exception as e: log_pipeline_error(...); raise
PipelineExcept ==
    /\ opc = "pipeline_except"
    /\ events' = _log_event(events, "pipeline_error", "run", oexc)
    /\ run_out' = [raised |-> oexc]
    /\ opc' = "failed"
    /\ UNCHANGED <<region, stageNo, results, all_hallucinations, started,
                   running, metrics, oexc>>
    /\ UNCHANGED notOrch

InitOrch == OrchStart /\ TracerStart /\ GuardIdle /\ DataIdle /\ RestIdle

NextOrch ==
    \/ PipelineBegin
    \/ ExpertInvestorBegin
    \/ StageStart
    \/ StageReturn
    \/ StageRaise
    \/ ShadowRun
    \/ StageAggregate
    \/ Evaluate
    \/ ExpertInvestorExcept
    \/ PipelineFinish
    \/ PipelineExcept

SpecOrch == InitOrch /\ [][NextOrch]_vars

(***************************************************************************)
(* Orchestrator properties.                                                *)
(***************************************************************************)
RunOver == opc \in {"done", "failed"}

HasReturned(k) == results[k] # NoResult

\* stage k's list has been added to all_hallucinations
Aggregated(k) ==
    /\ HasReturned(k)
    /\ \/ k < stageNo
       \/ opc \in {"evaluate", "audit", "done"}

ListOf(k) == IF Aggregated(k) THEN GetHallucinations(results[k]) ELSE <<>>

OrchestrationMetrics ==
    SelectSeq(metrics, LAMBDA m : m.metric_name = "Orchestration Faithfulness")

\* C5: the Run-level hallucination list is the Data stage's list, then the
\* Analysis stage's, then the Compilation stage's: nothing dropped, repeated
\* or moved, at every point of the run and in the count the metric reports.
C5_RunListIsConcatenation ==
    /\ all_hallucinations = ListOf(1) \o ListOf(2) \o ListOf(3)
    /\ opc \in {"audit", "done"} =>
          /\ all_hallucinations = GetHallucinations(results[1])
                                  \o GetHallucinations(results[2])
                                  \o GetHallucinations(results[3])
          /\ \A i \in 1..Len(OrchestrationMetrics) :
                OrchestrationMetrics[i].count = Len(all_hallucinations)

\* Data returned ["x"], Analysis ["y"], the run is done and the list is
\* ["x", "y"]
C5_Witness ==
    /\ opc = "done"
    /\ GetHallucinations(results[1]) = <<"x">>
    /\ GetHallucinations(results[2]) = <<"y">>
    /\ GetHallucinations(results[3]) = <<>>
    /\ all_hallucinations = <<"x", "y">>

\* C6: an "Orchestration Faithfulness" metric has score 0.0 exactly when the
\* Run-level list is non-empty, and then its reasoning is a reply of the
\* Judge; score 1.0 exactly when the list is empty, and then its reasoning is
\* the canned sentence; it has no other score.
C6_ScoreIsZeroIffAnyFault ==
    \A i \in 1..Len(OrchestrationMetrics) :
        LET m == OrchestrationMetrics[i] IN
        /\ m.score \in {"0.0", "1.0"}
        /\ m.score = "0.0" <=> all_hallucinations # <<>>
        /\ m.score = "1.0" <=> all_hallucinations = <<>>
        /\ m.score = "0.0" => m.reasoning \in JudgeReplies
        /\ m.score = "1.0" => m.reasoning = CannedReasoning

\* a run whose only fault came from the Analysis stage got score 0.0 with the
\* Judge's reasoning
C6_Witness ==
    /\ opc = "done"
    /\ Len(all_hallucinations) = 1
    /\ GetHallucinations(results[2]) # <<>>
    /\ Len(OrchestrationMetrics) = 1
    /\ OrchestrationMetrics[1].score = "0.0"
    /\ OrchestrationMetrics[1].reasoning \in JudgeReplies

\* C7: a run that is over, returned or raised, has written the
\* "Orchestration Faithfulness" metric exactly once.
C7_MetricOncePerCompletedRun ==
    RunOver => Len(OrchestrationMetrics) = 1

\* C10: the stages are started in the order Data, Analysis, Compilation, each
\* at most once and never two at a time; a stage is started only after the
\* one before it returned, and a run that is over started the stage after
\* every stage that returned a result, whatever that result's status.
C10_StagesInOrderNoGating ==
    /\ started = SubSeq(<<"Data Gathering", "Analysis", "Final Compilation">>,
                        1, Len(started))
    /\ Cardinality(running) <= 1
    /\ running # {} => running = {started[Len(started)]}
    /\ \A k \in 2..Len(started) : HasReturned(k - 1)
    /\ RunOver => \A k \in 1..2 : HasReturned(k) => Len(started) > k

\* a run is done in which Data and Analysis both returned status FAILED and
\* all three stages were started
C10_Witness ==
    /\ opc = "done"
    /\ results[1].status = "FAILED"
    /\ results[2].status = "FAILED"
    /\ started = <<"Data Gathering", "Analysis", "Final Compilation">>

\* the positions in the event stream of the events of one type and scope
\* carrying message m
EventPositions(type, scope, m) ==
    {n \in 1..Len(events) :
        events[n].type = type /\ events[n].scope = scope /\ events[n].msg = m}

AuditsOf(k) == EventPositions("agent_start", "Expert_Investor_Shadow", Stages[k])

\* C29: the shadow audit runs exactly once for each stage that returned,
\* after the stage's agent_end event and before the next stage is started;
\* the audit step leaves the stage results and the aggregated hallucinations
\* as they are, and the aggregation that follows it adds the hallucinations
\* of the stage's own result.
C29_ShadowOncePerStageReadOnly ==
    /\ [][opc = "shadow" =>
              (results' = results /\ all_hallucinations' = all_hallucinations)]_vars
    /\ [][opc = "aggregate" =>
              all_hallucinations' =
                  all_hallucinations \o GetHallucinations(results[stageNo])]_vars
    /\ [](\A k \in 1..Len(Stages) :
              /\ Cardinality(AuditsOf(k)) <= 1
              /\ Cardinality(AuditsOf(k)) = 1
                    <=> (HasReturned(k) /\ ~(stageNo = k /\ opc = "shadow"))
              /\ \A a \in AuditsOf(k) :
                    /\ \E e \in 1..(a - 1) :
                          events[e].type = "agent_end" /\ events[e].scope = Stages[k]
                    /\ \A n \in 1..Len(events) :
                          (k < Len(Stages) /\ events[n].type = "agent_start"
                             /\ events[n].scope = Stages[k + 1]) => a < n)

\* C29 witness: a run is done whose three stages were each audited and whose
\* Data stage reported a hallucination, so that the audit of it found issues.
C29_Witness ==
    /\ opc = "done"
    /\ \A k \in 1..Len(Stages) : Cardinality(AuditsOf(k)) = 1
    /\ GetHallucinations(results[1]) # <<>>
    /\ all_hallucinations # <<>>

\* C12: once a stage has raised, no later stage is started and nothing is
\* running; the run ends Failed, with a pipeline_error event carrying the
\* exception's message written after the orchestrator's agent_error event,
\* and CoTPipeline.run raises that same exception.  A run ends Failed only
\* this way.
C12_StageExceptionFailsRun ==
    /\ oexc # None =>
          /\ opc \in {"expert_except", "pipeline_except", "failed"}
          /\ Len(started) = stageNo
          /\ running = {}
          /\ ~HasReturned(stageNo)
          /\ opc \in {"pipeline_except", "failed"} =>
                \E i \in 1..Len(events) :
                    events[i] = Ev("agent_error", "Expert_Investor", oexc)
    /\ RunOver /\ oexc # None =>
          /\ opc = "failed"
          /\ run_out = [raised |-> oexc]
          /\ events[Len(events)] = Ev("pipeline_error", "run", oexc)
    /\ opc = "failed" => oexc # None

\* the Analysis stage raised "e1": the run is Failed, Compilation never ran
C12_Witness ==
    /\ opc = "failed"
    /\ oexc = "e1"
    /\ started = <<"Data Gathering", "Analysis">>
    /\ HasReturned(1)
    /\ run_out = [raised |-> "e1"]

\* C16: every mapping a stage returned has the key status with the value
\* TERMINATE or FAILED, the key created_files or validated_files, and the key
\* hallucinations.
C16_StageOutputHasMandatoryKeys ==
    \A k \in 1..Len(Stages) :
        HasReturned(k) =>
            /\ "status" \in results[k].keys
            /\ results[k].status \in Statuses
            /\ results[k].keys \cap {"created_files", "validated_files"} # {}
            /\ "hallucinations" \in results[k].keys

(***************************************************************************)
(* The entry point.  Loading annual_report_generator.py loads the agents   *)
(* and, with them, llm_evaluation.py, whose module body sends one request  *)
(* to the Judge.  process_company_with_analysis then resolves the company  *)
(* inside a pipeline_run scope and hands the request to CoTPipeline.run.   *)
(* The model takes the names the modules import from event_logger as       *)
(* resolved, so that what follows the load can be examined.                *)
(***************************************************************************)
\* the --year argument; "2024" is its default
Years == {"2023", "2024"}

Tickers == {"AAPL"}

\* the error_message values resolve_company_and_peers returns
ResolveErrors == {"No company found", "Yahoo Finance API error"}

CompanyInfo(err, ticker, rg) ==
    [error_message |-> err, ticker |-> ticker, region |-> rg]

NoInfo == CompanyInfo(None, None, None)

\* what resolve_company_and_peers can return
ResolveOutcomes ==
    {CompanyInfo(e, None, None) : e \in ResolveErrors}
    \cup {CompanyInfo(None, t, rg) : t \in Tickers, rg \in Regions}

\* if company_info.get("error_message")
ResolutionFailedNever(info) == FALSE

ResolutionFailed(info) == info.error_message # None

\* WORK_DIR = os.path.join(project_root, "report")
WORK_DIR == "<project_root>/report"

\* pipeline_input
PipelineInput(info, year) ==
    [ticker_symbol |-> info.ticker, fyear |-> year, region |-> info.region,
     work_dir |-> WORK_DIR, run_id |-> "run"]

\* the mapping stage k's run() is called with: {**input_query, "run_id": run_id}
\* for the Data stage, {**data, ...} and {**analysis, ...} for the next two
StageInputKeys(k) ==
    IF k = 1 THEN DOMAIN PipelineInput(company_info, analysis_year) \cup {"run_id"}
    ELSE results[k - 1].keys \cup {"run_id"}

\* input_data.get(key, default) in stage k.  A key that comes with the
\* upstream result carries a value of the upstream stage's making, written
\* here as the key's own name.
StageInputGet(k, key, default) ==
    IF key \notin StageInputKeys(k) THEN default
    ELSE IF k = 1 THEN PipelineInput(company_info, analysis_year)[key]
    ELSE key

\* out_path = os.path.join(work_dir, f"{ticker}_{fyear}_Annual_Report.pdf")
OutPath(work_dir, ticker, fyear) ==
    [dir |-> work_dir, name |-> <<ticker, "_", fyear, "_Annual_Report.pdf">>]

\* work_dir, ticker and fyear as ThesisCoTAgent.run reads them
ThesisOutPath ==
    OutPath(StageInputGet(3, "work_dir", "./report"),
            StageInputGet(3, "ticker_symbol", "Company"),
            StageInputGet(3, "fyear", "2024"))

\* the replies the Judge service can give to the request of the module body
LoadReplies == {"completion", "request failed"}

\* "analysis_completed" if pipeline_result else "analysis_failed"
RunStatus(pipeline_result) ==
    IF pipeline_result.keys # {} THEN "analysis_completed" ELSE "analysis_failed"

\* pipeline_result.get("summary", "Analysis skipped or incomplete")
ChatSummary(pipeline_result) ==
    IF "summary" \in pipeline_result.keys THEN "summary"
    ELSE "Analysis skipped or incomplete"

RunStart ==
    /\ rpc = "import"
    /\ analysis_year \in Years
    /\ company_info = NoInfo
    /\ resolves = 0
    /\ run_result = None

\* import of agents.agent_pipeline: the module body of llm_evaluation.py
\* runs client.chat.completions.create(...) with no handler around it
RunLoad ==
    /\ rpc = "import"
    /\ \E reply \in LoadReplies :
          IF reply = "request failed"
          THEN /\ rpc' = "crashed"
               /\ run_result' = [raised |-> "Judge request failed"]
          ELSE /\ rpc' = "loaded"
               /\ UNCHANGED run_result
    /\ UNCHANGED <<analysis_year, company_info, resolves, events>>
    /\ UNCHANGED orchVars
    /\ UNCHANGED notRun

\* process_company_with_analysis up to the resolution: the pipeline_run scope
\* and the resolver's agent_run scope are entered
RunBegin ==
    /\ rpc = "loaded"
    /\ events' = _log_event(
                   _log_event(events, "pipeline_start", "pipeline_run", None),
                   "agent_start", "CompanyResolver", None)
    /\ rpc' = "resolving"
    /\ UNCHANGED <<analysis_year, company_info, resolves, run_result>>
    /\ UNCHANGED orchVars
    /\ UNCHANGED notRun

\* resolution failed: log_error_resolver, raise ValueError; the except
\* clauses of agent_run and of pipeline_run each log the message and re-raise
RunResolveFailed ==
    /\ rpc = "resolving"
    /\ \E info \in ResolveOutcomes :
          /\ ResolutionFailed(info)
          /\ company_info' = info
          /\ events' = _log_event(
                         _log_event(
                           _log_event(events, "agent_error", "CompanyResolver",
                                      info.error_message),
                           "agent_error", "CompanyResolver", info.error_message),
                         "pipeline_error", "pipeline_run", info.error_message)
          /\ run_result' = [raised |-> info.error_message]
    /\ resolves' = resolves + 1
    /\ rpc' = "failed"
    /\ UNCHANGED analysis_year
    /\ UNCHANGED orchVars
    /\ UNCHANGED notRun

\* resolution succeeded: log_end_resolver, pipeline_input is built, the
\* CoTPipeline agent_run scope is entered and pipeline.run(pipeline_input)
\* is called
RunResolved ==
    /\ rpc = "resolving"
    /\ \E info \in ResolveOutcomes :
          /\ ~ResolutionFailed(info)
          /\ company_info' = info
          /\ region' = info.region
    /\ resolves' = resolves + 1
    /\ events' = _log_event(
                   _log_event(events, "agent_end", "CompanyResolver", None),
                   "agent_start", "CoTPipeline", None)
    /\ opc' = "start"
    /\ stageNo' = 0
    /\ results' = [k \in 1..Len(Stages) |-> NoResult]
    /\ all_hallucinations' = <<>>
    /\ started' = <<>>
    /\ running' = {}
    /\ metrics' = <<>>
    /\ oexc' = None
    /\ run_out' = None
    /\ rpc' = "pipeline"
    /\ UNCHANGED <<analysis_year, run_result>>
    /\ UNCHANGED notRun

\* pipeline.run returned: log_end, the result is filled in, log_end_pipeline,
\* return result
RunPipelineReturned ==
    /\ rpc = "pipeline"
    /\ opc = "done"
    /\ LET pipeline_result == run_out.returned IN
       /\ run_result' = [status |-> RunStatus(pipeline_result),
                         chat_summary |-> ChatSummary(pipeline_result)]
       /\ events' = _log_event(
                      _log_event(events, "agent_end", "CoTPipeline",
                                 pipeline_result.status),
                      "pipeline_end", "pipeline_run", ChatSummary(pipeline_result))
    /\ rpc' = "done"
    /\ UNCHANGED <<analysis_year, company_info, resolves>>
    /\ UNCHANGED orchVars
    /\ UNCHANGED notRun

\* pipeline.run raised: the except clauses of agent_run and of pipeline_run
\* each log the message and re-raise
RunPipelineRaised ==
    /\ rpc = "pipeline"
    /\ opc = "failed"
    /\ events' = _log_event(
                   _log_event(events, "agent_error", "CoTPipeline", run_out.raised),
                   "pipeline_error", "pipeline_run", run_out.raised)
    /\ run_result' = [raised |-> run_out.raised]
    /\ rpc' = "failed"
    /\ UNCHANGED <<analysis_year, company_info, resolves>>
    /\ UNCHANGED orchVars
    /\ UNCHANGED notRun

InitRun ==
    /\ RunStart
    /\ OrchIdle
    /\ TracerStart
    /\ GuardIdle
    /\ DataIdle
    /\ ShadowIdle
    /\ LogIdle
    /\ ConcIdle

NextRun ==
    \/ RunLoad
    \/ RunBegin
    \/ RunResolveFailed
    \/ RunResolved
    \/ NextOrch
    \/ RunPipelineReturned
    \/ RunPipelineRaised

SpecRun == InitRun /\ [][NextRun]_vars

(***************************************************************************)
(* Entry point properties.                                                 *)
(***************************************************************************)
LastEvent == events[Len(events)]

RunEnded == rpc \in {"done", "failed"}

CompilationFailed == HasReturned(3) /\ results[3].status = "FAILED"

\* C11: a run whose Compilation stage reported failure ends Failed: its last
\* event is pipeline_error, no PDF is reported and the caller does not get a
\* success status; a run ends Done only after the Compiler reported success.
C11_CompilationFailureFailsRun ==
    /\ (RunEnded /\ opc # "idle" /\ CompilationFailed) =>
          /\ rpc = "failed"
          /\ LastEvent.type = "pipeline_error"
          /\ "pdf_path" \notin results[3].keys
    /\ rpc = "done" =>
          /\ results[3].status = "TERMINATE"
          /\ LastEvent.type = "pipeline_end"

ErrorEventsOf(scope) ==
    SelectSeq(events, LAMBDA e : e.scope = scope /\ e.type \in {"agent_error", "pipeline_error"})

C17_StageInputCarriesRunIdentity ==
    \A k \in 1..Len(started) :
        /\ {"run_id", "work_dir", "ticker_symbol", "fyear"} \subseteq StageInputKeys(k)
        /\ StageInputGet(k, "work_dir", "./report") = WORK_DIR
        /\ StageInputGet(k, "ticker_symbol", "Company") = company_info.ticker
        /\ StageInputGet(k, "fyear", "2024") = analysis_year

\* C18: when the Compilation stage reports a PDF, its path is the run's
\* working directory and the name <ticker>_<fiscal_year>_Annual_Report.pdf
\* with the run's ticker and fiscal year.
C18_ReportNamedAfterRun ==
    (opc # "idle" /\ HasReturned(3) /\ "pdf_path" \in results[3].keys) =>
        ThesisOutPath = OutPath(WORK_DIR, company_info.ticker, analysis_year)

\* C20: a failure of the Judge never crashes the program: the program never
\* ends at the load of its modules, and no run ends by an exception that
\* came from a Judge request.
C20_JudgeFailureNeverCrashes ==
    /\ rpc # "crashed"
    /\ rpc = "failed" => run_result.raised \in (ResolveErrors \cup Msgs)

PipelineRunId == PipelineInput(NoInfo, None).run_id

\* run_id = str(uuid.uuid4()) in CoTPipeline.run
CoTRunId == "uuid of CoTPipeline.run"

\* The value in the run_id field of an event, by the code that emits it:
\* pipeline_run and agent_run pass pipeline_run's run_id; CoTPipeline.run
\* passes its own uuid, and calls log_pipeline_start(run_id, input_query),
\* whose parameters are (query, run_id); ExpertInvestor.run passes
\* context["run_id"], CoTPipeline's uuid; shadow.run(result, stage=...) is
\* called without run_id, whose default is None.
EventRunId(e) ==
    CASE e.scope \in {"pipeline_run", "CompanyResolver", "CoTPipeline"} ->
            PipelineRunId
      [] e.scope = "run" /\ e.type = "pipeline_start" -> "input_query"
      [] e.scope = "run" /\ e.type # "pipeline_start" -> CoTRunId
      [] e.scope = "Expert_Investor_Shadow" -> None
      [] OTHER -> CoTRunId

\* C26: every event of a Run carries the run_id generated when the Run was
\* started; none carries a null run_id or another run_id.
C26_OneRunIdOnEveryEvent ==
    \A n \in 1..Len(events) : EventRunId(events[n]) = PipelineRunId

TypePositions(types) == {n \in 1..Len(events) : events[n].type \in types}

\* C30: the event stream of a request has exactly one pipeline_start event,
\* before every other event, and, once the request has ended, exactly one
\* pipeline_end or pipeline_error event, after every other event.
C30_OnePipelineStartOneTerminal ==
    /\ Cardinality(TypePositions({"pipeline_start"})) <= 1
    /\ Cardinality(TypePositions({"pipeline_end", "pipeline_error"})) <= 1
    /\ events # <<>> => events[1].type = "pipeline_start"
    /\ \A n \in TypePositions({"pipeline_end", "pipeline_error"}) :
          n = Len(events) /\ rpc \in {"done", "failed"}
    /\ rpc \in {"done", "failed"} =>
          Cardinality(TypePositions({"pipeline_end", "pipeline_error"})) = 1

(***************************************************************************)
(* The shadow auditor on its own: ExpertInvestorShadow.run applied to a    *)
(* stage output, either one of the mappings the stages return or a mapping *)
(* with any subset of the keys the auditor looks at.                       *)
(***************************************************************************)
\* expected_keys
ExpectedKeys == <<"created_files", "status">>

AuditedKeys == {"created_files", "status", "hallucinations"}

\* mappings with any subset of the audited keys
KeySubsetOutputs ==
    {Result(ks, IF "status" \in ks THEN s ELSE None,
                IF "hallucinations" \in ks THEN h ELSE <<>>) :
        ks \in SUBSET AuditedKeys, s \in Statuses, h \in FaultLists}

\* the calls of shadow.run: <<stage, input_data>>
AuditCalls ==
    UNION {{<<Stages[k], r>> : r \in UNION {StageReturns(k, rg) : rg \in Regions}} :
              k \in 1..Len(Stages)}
    \cup {<<Stages[k], r>> : k \in 1..Len(Stages), r \in KeySubsetOutputs}

Issue(text, result, reasoning) ==
    [issue |-> text, result |-> result, reasoning |-> reasoning]

\* an audit that checks the keys only
ShadowIssuesKeysOnly(result, reply) ==
    (IF ExpectedKeys[1] \notin result.keys
     THEN <<Issue("Missing key: created_files", "FAIL", None)>> ELSE <<>>)
    \o (IF ExpectedKeys[2] \notin result.keys
        THEN <<Issue("Missing key: status", "FAIL", None)>> ELSE <<>>)

\* issues: one FAIL issue per expected key that is missing, in the order of
\* expected_keys, then one WARN issue when hallucinations is non-empty
ShadowIssues(result, reply) ==
    (IF ExpectedKeys[1] \notin result.keys
     THEN <<Issue("Missing key: created_files", "FAIL", None)>> ELSE <<>>)
    \o (IF ExpectedKeys[2] \notin result.keys
        THEN <<Issue("Missing key: status", "FAIL", None)>> ELSE <<>>)
    \o (IF GetHallucinations(result) # <<>>
        THEN <<Issue("Hallucinations found in output", "WARN", reply)>>
        ELSE <<>>)

\* audit_output
AuditReport(stage, issues) ==
    [stage |-> stage, issues |-> issues,
     status |-> IF issues = <<>> THEN "TERMINATE" ELSE "FAILED"]

\* return audit_output if issues else input_data
ShadowReturn(result, stage, issues) ==
    IF issues # <<>> THEN AuditReport(stage, issues) ELSE result

ShadowStart ==
    /\ spc = "called"
    /\ \E call \in AuditCalls :
          /\ stage_arg = call[1]
          /\ input_data = call[2]
    /\ audit_return = None
    /\ qa_metrics = <<>>

\* ExpertInvestorShadow.run
ShadowAudit ==
    /\ spc = "called"
    /\ \E reply \in llm_judge_explanation(GetHallucinations(input_data)) :
          /\ qa_metrics' = ShadowMetrics(qa_metrics, input_data, reply)
          /\ audit_return' = ShadowReturn(input_data, stage_arg,
                                          ShadowIssues(input_data, reply))
    /\ events' = _log_event(
                   _log_event(events, "agent_start", "Expert_Investor_Shadow",
                              stage_arg),
                   "agent_end", "Expert_Investor_Shadow", stage_arg)
    /\ spc' = "returned"
    /\ UNCHANGED <<stage_arg, input_data>>
    /\ UNCHANGED notShadow

InitShadow ==
    /\ ShadowStart
    /\ TracerStart
    /\ GuardIdle
    /\ DataIdle
    /\ OrchIdle
    /\ RunIdle
    /\ LogIdle
    /\ ConcIdle

NextShadow == ShadowAudit

SpecShadow == InitShadow /\ [][NextShadow]_vars

(***************************************************************************)
(* Shadow auditor properties.                                              *)
(***************************************************************************)
MissingKeys == {"created_files", "status"} \ input_data.keys

IsAuditReport(r) == "issues" \in DOMAIN r

IssuesWith(r, result) == SelectSeq(r.issues, LAMBDA i : i.result = result)

\* C14: the auditor returns its input itself exactly when no expected key is
\* missing and the hallucination list is empty; otherwise it returns an audit
\* report for the stage with status FAILED, one FAIL issue for each missing
\* key and one WARN issue exactly when the list is non-empty; it records one
\* "QA Issue" metric with score 0.0 per issue and none on a pass-through.
C14_ShadowPassThroughOrReport ==
    spc = "returned" =>
        /\ audit_return = input_data
              <=> (MissingKeys = {} /\ GetHallucinations(input_data) = <<>>)
        /\ audit_return = input_data => qa_metrics = <<>>
        /\ audit_return # input_data =>
              /\ IsAuditReport(audit_return)
              /\ audit_return.stage = stage_arg
              /\ audit_return.status = "FAILED"
              /\ Len(IssuesWith(audit_return, "FAIL")) = Cardinality(MissingKeys)
              /\ \A k \in MissingKeys : \E i \in 1..Len(audit_return.issues) :
                    /\ audit_return.issues[i].result = "FAIL"
                    /\ audit_return.issues[i].issue
                          = (IF k = "status" THEN "Missing key: status"
                                             ELSE "Missing key: created_files")
              /\ Len(IssuesWith(audit_return, "WARN"))
                    = (IF GetHallucinations(input_data) # <<>> THEN 1 ELSE 0)
              /\ Len(audit_return.issues)
                    = Len(IssuesWith(audit_return, "FAIL"))
                      + Len(IssuesWith(audit_return, "WARN"))
              /\ Len(qa_metrics) = Len(audit_return.issues)
              /\ \A i \in 1..Len(qa_metrics) :
                    /\ qa_metrics[i].metric_name = "QA Issue"
                    /\ qa_metrics[i].score = "0.0"

\* an output without created_files and with a fault was audited: a report
\* with one FAIL and one WARN issue and two metrics
C14_Witness ==
    /\ spc = "returned"
    /\ MissingKeys = {"created_files"}
    /\ GetHallucinations(input_data) = <<"x">>
    /\ IsAuditReport(audit_return)
    /\ Len(audit_return.issues) = 2
    /\ Len(qa_metrics) = 2

\* an output with both keys and no fault was audited and came back itself
C14_WitnessPassThrough ==
    /\ spc = "returned"
    /\ MissingKeys = {}
    /\ audit_return = input_data

HappyStageOutput ==
    /\ \E k \in 1..Len(Stages) :
          /\ stage_arg = Stages[k]
          /\ input_data \in UNION {StageReturns(k, rg) : rg \in Regions}
    /\ input_data.status = "TERMINATE"
    /\ GetHallucinations(input_data) = <<>>

\* C15: the audit of a stage output with status TERMINATE and an empty
\* hallucination list finds nothing: no "QA Issue" metric is recorded and
\* the output is returned itself.
C15_ShadowNoOpOnHappyPath ==
    (spc = "returned" /\ HappyStageOutput) =>
        /\ qa_metrics = <<>>
        /\ audit_return = input_data

(***************************************************************************)
(* The event log under an emitting caller.  The caller is shaped like      *)
(* ExpertInvestor.run: it emits its events one after the other inside a    *)
(* try block whose except clause logs the error and re-raises.  An event   *)
(* is emitted through a function of event_logger, which hands the record   *)
(* to _log_event: json.dumps, then the logging handlers.                   *)
(***************************************************************************)
\* how many events the caller emits
MaxEmits == 3

\* an emission: the event_logger function called and whether json.dumps
\* accepts the data handed over
Emission(fn, json) == [fn |-> fn, json |-> json]

Emissions ==
    {Emission("log_agent_end", "serialisable"),
     Emission("log_agent_end", "not serialisable"),
     Emission("log_hallucination_metric", "serialisable")}

RECURSIVE EmissionSeqs(_)
EmissionSeqs(n) ==
    IF n = 0 THEN {<<>>}
    ELSE LET shorter == EmissionSeqs(n - 1) IN
         shorter \cup {Append(s, e) : s \in {q \in shorter : Len(q) = n - 1},
                                      e \in Emissions}

\* what the logging handlers do with a record: write it, or fail, in which
\* case logging reports the failure on stderr and returns
HandlerOutcomes == {"written", "handler error"}

\* the exception an emission raises in the caller, or "none"
EmitRaises(e) ==
    IF ~HasAttr(e.fn) THEN "AttributeError"
    ELSE IF e.json # "serialisable" THEN "TypeError"
    ELSE None

LogStart ==
    /\ lpc = "emitting"
    /\ payloads \in EmissionSeqs(MaxEmits) \ {<<>>}
    /\ dropped = <<>>
    /\ caller_out = None

\* the caller emits its next event
LogEmit ==
    /\ lpc = "emitting"
    /\ payloads # <<>>
    /\ LET e == Head(payloads) IN
       IF EmitRaises(e) # None
       THEN /\ lpc' = "except"
            /\ caller_out' = EmitRaises(e)
            /\ UNCHANGED <<events, dropped, payloads>>
       ELSE /\ \E w \in HandlerOutcomes :
                  IF w = "written"
                  THEN /\ events' = _log_event(events, "agent_end", "caller", e.fn)
                       /\ UNCHANGED dropped
                  ELSE /\ dropped' = Append(dropped, e)
                       /\ UNCHANGED events
            /\ payloads' = Tail(payloads)
            /\ UNCHANGED <<lpc, caller_out>>
    /\ UNCHANGED notLog

\* except Exception as e: log_agent_error(..., str(e), ...); raise
LogCallerExcept ==
    /\ lpc = "except"
    /\ \E w \in HandlerOutcomes :
          IF w = "written"
          THEN /\ events' = _log_event(events, "agent_error", "caller", caller_out)
               /\ UNCHANGED dropped
          ELSE /\ dropped' = Append(dropped, Emission("log_agent_error", "serialisable"))
               /\ UNCHANGED events
    /\ lpc' = "raised"
    /\ UNCHANGED <<payloads, caller_out>>
    /\ UNCHANGED notLog

\* every event was emitted: the caller returns
LogCallerReturn ==
    /\ lpc = "emitting"
    /\ payloads = <<>>
    /\ lpc' = "returned"
    /\ caller_out' = "returned"
    /\ UNCHANGED <<events, payloads, dropped>>
    /\ UNCHANGED notLog

InitLog ==
    /\ LogStart
    /\ TracerStart
    /\ GuardIdle
    /\ DataIdle
    /\ OrchIdle
    /\ RunIdle
    /\ ShadowIdle
    /\ ConcIdle

NextLog ==
    \/ LogEmit
    \/ LogCallerExcept
    \/ LogCallerReturn

SpecLog == InitLog /\ [][NextLog]_vars

(***************************************************************************)
(* Event log properties.                                                   *)
(***************************************************************************)
\* C19: emitting an event never fails the caller: whatever the caller emits
\* and whatever the handlers do, the caller never enters its except clause
\* and never ends by an exception.
C19_EmitNeverFailsCaller ==
    /\ lpc \notin {"except", "raised"}
    /\ caller_out \in {None, "returned"}

(***************************************************************************)
(* Concurrent report requests.  Every /stream request starts its own       *)
(* subprocess of annual_report_generator.py with cwd = APP_DIR; the        *)
(* subprocess computes WORK_DIR from its working directory and hands it to *)
(* the pipeline as work_dir.  The Data stage of each subprocess goes       *)
(* through the manifest: the tool of an entry writes its output file (or   *)
(* writes nothing), then the file at the entry's path is validated.  The   *)
(* subprocesses share nothing but the file system.                         *)
(***************************************************************************)
\* the requests in flight
Requests == {"q1", "q2"}

\* the company parameter of a request
Companies == {"AAPL", "MSFT"}

\* fpath = os.path.join(work_dir, fname)
Join(dir, fname) == [dir |-> dir, name |-> fname]

\* the manifest entries a subprocess goes through
ConcManifest == Window(1)

\* the paths the file system is observed at
Paths == {Join(WORK_DIR, f) : f \in FilesOf(ConcManifest)}

\* a request not yet received
NoProc ==
    [pc |-> "none", company |-> None, year |-> None, work_dir |-> None,
     at |-> 0, wrote |-> {}, validated |-> {}]

ConcStart ==
    /\ procs = [q \in Requests |-> NoProc]
    /\ disk = [p \in Paths |-> None]

\* stream(): the request's parameters are read and the subprocess started
Stream(q) ==
    /\ procs[q].pc = "none"
    /\ \E c \in Companies, y \in Years :
          procs' = [procs EXCEPT ![q] = [@ EXCEPT !.pc = "spawned",
                                                   !.company = c, !.year = y]]
    /\ UNCHANGED disk
    /\ UNCHANGED notConc

\* the subprocess up to the Data stage's loop: WORK_DIR is computed and
\* created, and reaches the stage as input_data["work_dir"]
ProcBegin(q) ==
    /\ procs[q].pc = "spawned"
    /\ procs' = [procs EXCEPT ![q] =
                    [@ EXCEPT !.pc = "tool",
                              !.work_dir = PipelineInput(
                                  CompanyInfo(None, procs[q].company, "US"),
                                  procs[q].year).work_dir,
                              !.at = 1]]
    /\ UNCHANGED disk
    /\ UNCHANGED notConc

ProcPath(q) == Join(procs[q].work_dir, ConcManifest[procs[q].at].file)

\* the tool of the entry runs: it writes its output file, or nothing
ProcTool(q) ==
    /\ procs[q].pc = "tool"
    /\ \E w \in {"written", "nothing"} :
          IF w = "written"
          THEN /\ disk' = [disk EXCEPT ![ProcPath(q)] = q]
               /\ procs' = [procs EXCEPT ![q] =
                               [@ EXCEPT !.pc = "validate",
                                         !.wrote = @ \cup {ProcPath(q)}]]
          ELSE /\ UNCHANGED disk
               /\ procs' = [procs EXCEPT ![q].pc = "validate"]
    /\ UNCHANGED notConc

\* os.path.exists(fpath) and os.path.getsize(fpath) > ...: the file now at
\* the path is validated, whoever wrote it; then the next entry
ProcValidate(q) ==
    /\ procs[q].pc = "validate"
    /\ procs' = [procs EXCEPT ![q] =
                    [@ EXCEPT !.validated =
                                  IF disk[ProcPath(q)] # None
                                  THEN @ \cup {[path |-> ProcPath(q),
                                                writer |-> disk[ProcPath(q)]]}
                                  ELSE @,
                              !.at = @ + 1,
                              !.pc = IF procs[q].at = Len(ConcManifest)
                                     THEN "done" ELSE "tool"]]
    /\ UNCHANGED disk
    /\ UNCHANGED notConc

InitConc ==
    /\ ConcStart
    /\ TracerStart
    /\ GuardIdle
    /\ DataIdle
    /\ OrchIdle
    /\ RunIdle
    /\ ShadowIdle
    /\ LogIdle

NextConc ==
    \/ \E q \in Requests : Stream(q)
    \/ \E q \in Requests : ProcBegin(q)
    \/ \E q \in Requests : ProcTool(q)
    \/ \E q \in Requests : ProcValidate(q)

SpecConc == InitConc /\ [][NextConc]_vars

(***************************************************************************)
(* Concurrency properties.                                                 *)
(***************************************************************************)
InProgress(q) == procs[q].pc \in {"tool", "validate"}

\* C21: concurrent Runs are independent: two Runs in progress at the same
\* time never have the same working directory, no Run validates a file
\* another Run wrote, and no path is written by two Runs.
C21_ConcurrentRunsIndependent ==
    \A q1, q2 \in Requests :
        q1 # q2 =>
            /\ (InProgress(q1) /\ InProgress(q2))
                  => procs[q1].work_dir # procs[q2].work_dir
            /\ \A v \in procs[q1].validated : v.writer # q2
            /\ procs[q1].wrote \cap procs[q2].wrote = {}

InitTracer == TracerStart /\ GuardIdle /\ DataIdle /\ OrchIdle /\ RestIdle

NextTracer ==
    \/ PipelineRunEnter
    \/ AgentRunEnter
    \/ LogEnd
    \/ LogError
    \/ BodyRaise
    \/ ScopeExcept
    \/ BodyReturn

SpecTracer == InitTracer /\ [][NextTracer]_vars

(***************************************************************************)
(* Tracer properties.                                                      *)
(***************************************************************************)
EventsOf(s) == SelectSeq(events, LAMBDA e : e.scope = s)

IsTerminal(e) ==
    e.type \in {"pipeline_end", "pipeline_error", "agent_end", "agent_error"}

TerminalsOf(s) == SelectSeq(EventsOf(s), IsTerminal)

Closed(s) == scopes[s].state = "closed"

\* C1: every scope that was opened with pipeline_run or agent_run and has been
\* left has exactly one terminal event (*_end or *_error) in the event log,
\* whatever its wrapped code did.
C1_ExactlyOneTerminalEvent ==
    \A s \in ScopeIds : Closed(s) => Len(TerminalsOf(s)) = 1

\* C2: when the wrapped code of a scope raised and no callback of that scope
\* was invoked, the log holds for that scope exactly the start event followed
\* by one error event carrying the exception's message, and the same exception
\* left the scope (it reaches the caller once every scope is left).
C2_RaiseIsLoggedThenPropagated ==
    \A s \in ScopeIds :
        (Closed(s) /\ scopes[s].raised # None /\ scopes[s].calls = 0) =>
            /\ EventsOf(s) = << Ev(StartType(scopes[s].kind), s, None),
                                Ev(ErrorType(scopes[s].kind), s, scopes[s].raised) >>
            /\ scopes[s].out = scopes[s].raised
            /\ exc = scopes[s].raised

\* C2 witness: the pipeline scope and an agent scope nested in it were both
\* left by an exception, neither having had a callback invoked.
C2_Witness ==
    /\ stack = <<>>
    /\ Closed(1) /\ Closed(2)
    /\ scopes[2].kind = "agent"
    /\ scopes[1].raised # None /\ scopes[2].raised # None
    /\ scopes[1].calls = 0 /\ scopes[2].calls = 0

=============================================================================
